---- MODULE Spec2Model ----
(***************************************************************************)
(* Model of gpustack/benchmark-runner's two stateful components:           *)
(*                                                                         *)
(*  - ChatCompletionsWithReasoningResponseHandler.add_streaming_line       *)
(*    (src/benchmark_runner/custom_response_handler.py), the per-stream    *)
(*    token arrival extractor;                                             *)
(*  - ChainedBenchmarkerProgress (src/guidellm_box/chained_progress.py),   *)
(*    the asyncio.gather fan-out of lifecycle events, together with        *)
(*    ServerBenchmarkerProgress (src/benchmark_runner/progress.py), the    *)
(*    throttled remote progress sink.                                      *)
(*                                                                         *)
(* Python values are encoded as strings so that TLC can compare them:      *)
(* Absent is a missing dict key, None is Python's None / JSON null.        *)
(***************************************************************************)
EXTENDS Integers, Sequences, FiniteSets, TLC

VARIABLES
    \* ---- extractor (one ChatCompletionsWithReasoningResponseHandler) ----
    streaming_texts,        \* self.streaming_texts: list of appended fragments
    streaming_response_id,  \* self.streaming_response_id
    streaming_usage,        \* self.streaming_usage
    line,                   \* argument of the latest add_streaming_line call
    result,                 \* what that call returned ("1", "0", "None") or raised
    \* ---- router (one ChainedBenchmarkerProgress) and its caller ----
    progresses,             \* self.progresses: the observers, by kind
    pc,                     \* the caller: "idle", or "awaiting" a dispatch
    dispatched,             \* number of dispatch calls made so far
    phase,                  \* where the caller's event sequence stands in the lifecycle
    event,                  \* the method and argument of the latest dispatch call
    calls,                  \* per observer: how many handler calls it has received,
                            \* and the method and argument of the latest one
    outer,                  \* the future asyncio.gather returned for the latest dispatch
    tasks,                  \* the handler tasks still known, keyed by <<dispatch, observer>>
    \* ---- remote sink (one ServerBenchmarkerProgress) ----
    session,                \* self.session: None, "open" or "closed"
    sessions_created,       \* number of aiohttp.ClientSession(...) constructions
    sessions_closed,        \* number of times close() closed an open session
    last_update_ts,         \* self._last_update_ts, in ticks
    last_progress,          \* self._last_progress
    clock                   \* time.time(), in ticks

extractorVars ==
    <<streaming_texts, streaming_response_id, streaming_usage, line, result>>

routerVars == <<progresses, pc, dispatched, phase, event, calls, outer, tasks>>
sinkVars ==
    <<session, sessions_created, sessions_closed, last_update_ts, last_progress,
      clock>>

vars == <<extractorVars, routerVars, sinkVars>>

----------------------------------------------------------------------------
(* Python value encoding                                                   *)

Absent == "<absent>"
None == "<None>"
EmptyUsage == "{}"

\* Python truthiness of the values that occur in a payload.
Truthy(v) == v \notin {Absent, None, "", EmptyUsage}

\* Python's `a or b`.
PyOr(a, b) == IF Truthy(a) THEN a ELSE b

\* dict.get(key) with default None: a missing key reads as None.
DictGet(v) == IF v = Absent THEN None ELSE v

----------------------------------------------------------------------------
(* Input lines of one response stream                                      *)

MaxTexts == 3

ContentValues == {Absent, None, "", "A"}
ReasoningValues == {Absent, None, "", "B"}
IdValues == {Absent, "id1", "id2"}
UsageValues == {Absent, EmptyUsage, "U1", "U2"}

\* A choice is its "delta": a dict with optional content / reasoning_content,
\* a choice that has no "delta" key at all, or a choice whose "delta" is null.
DictDelta(c, r) == [kind |-> "dict", content |-> c, reasoning_content |-> r]
NoDelta == [kind |-> "absent", content |-> Absent, reasoning_content |-> Absent]
NullDelta == [kind |-> "null", content |-> Absent, reasoning_content |-> Absent]
Deltas == {DictDelta(c, r) : c \in ContentValues, r \in ReasoningValues} \cup {NoDelta}
LaterDeltas == {DictDelta("A", Absent), DictDelta(Absent, "B"), NoDelta}

ChoiceLists ==
    {<<>>} \cup {<<d>> : d \in Deltas}
           \cup {<<d, e>> : d \in Deltas, e \in LaterDeltas}
FewChoiceLists ==
    {<<>>, <<DictDelta("A", Absent)>>, <<DictDelta(Absent, Absent)>>, <<NullDelta>>}

Payload(i, cs, u) == [kind |-> "payload", id |-> i, choices |-> cs, usage |-> u]
DoneLine == [kind |-> "done", id |-> Absent, choices |-> <<>>, usage |-> Absent]
BlankLine == [kind |-> "blank", id |-> Absent, choices |-> <<>>, usage |-> Absent]
NoLine == [kind |-> "nocall", id |-> Absent, choices |-> <<>>, usage |-> Absent]

\* Every delta shape is fed with and without a usage record; every id / usage
\* combination is fed with a few representative choice lists.
Lines ==
    {DoneLine, BlankLine}
        \cup {Payload(Absent, cs, u) : cs \in ChoiceLists, u \in {Absent, "U1"}}
        \cup {Payload(i, cs, u) : i \in IdValues, cs \in FewChoiceLists, u \in UsageValues}

----------------------------------------------------------------------------
(* add_streaming_line                                                      *)

\* extract_line_data (guidellm base class): None for the "data: [DONE]"
\* sentinel, {} for a blank / non-data line, the decoded dict otherwise.
ExtractLineData(l) ==
    CASE l.kind = "done" -> "None"
      [] l.kind = "blank" -> "empty"
      [] OTHER ->
           IF l.id = Absent /\ l.choices = <<>> /\ l.usage = Absent
           THEN "empty" ELSE "dict"

\* extract_choices_and_usage (guidellm base class): data.get("choices", []),
\* data.get("usage", {}).
ExtractChoices(l) == l.choices
ExtractUsage(l) == IF l.usage = Absent THEN EmptyUsage ELSE l.usage

\* choice = choices[0] if choices else {}
LastChoice(choices) == IF choices # <<>> THEN choices[Len(choices)] ELSE NoDelta
FirstChoice(choices) == IF choices # <<>> THEN choices[1] ELSE NoDelta

\* if "id" in data and self.streaming_response_id is None: ... = data["id"]
NewResponseIdLastWins(cur, l) == IF l.id # Absent THEN l.id ELSE cur
NewResponseId(cur, l) == IF l.id # Absent /\ cur = None THEN l.id ELSE cur

\* content is not None or reasoning_content is not None
TokenDetectedMissesEmpty(content, reasoning_content) ==
    Truthy(content) \/ Truthy(reasoning_content)
TokenDetectedContentOnly(content, reasoning_content) ==
    content # None
TokenDetected(content, reasoning_content) ==
    content # None \/ reasoning_content # None

\* content or reasoning_content or ""
FragmentReasoningFirst(content, reasoning_content) ==
    PyOr(PyOr(reasoning_content, content), "")
Fragment(content, reasoning_content) ==
    PyOr(PyOr(content, reasoning_content), "")

\* if usage: self.streaming_usage = usage
NewUsageNeverStored(cur, usage) == cur
NewUsageFirstWins(cur, usage) == IF Truthy(usage) /\ cur = None THEN usage ELSE cur
NewUsage(cur, usage) == IF Truthy(usage) THEN usage ELSE cur

\* delta = choice.get("delta", {}); delta.get("content"): the default {} only
\* replaces a missing key, so a null delta is None and None.get raises
\* AttributeError.
DeltaGetRaises(delta) == delta.kind = "null"

\* The early return of lines 87-88: None if data is None else 0.
EarlyReturnZero(data) == "0"
EarlyReturnOne(data) == IF data = "None" THEN "None" ELSE "1"
EarlyReturn(data) == IF data = "None" THEN "None" ELSE "0"

AddStreamingLine(l) ==
    LET data == ExtractLineData(l) IN
    /\ Len(streaming_texts) < MaxTexts
    /\ UNCHANGED <<routerVars, sinkVars>>
    /\ line' = l
    /\ IF data # "dict"
       THEN /\ result' = EarlyReturn(data)
            /\ UNCHANGED <<streaming_texts, streaming_response_id, streaming_usage>>
       ELSE LET choices == ExtractChoices(l)
                usage == ExtractUsage(l)
                delta == FirstChoice(choices)
                content == DictGet(delta.content)
                reasoning_content == DictGet(delta.reasoning_content)
                updated == choices # <<>> /\ TokenDetected(content, reasoning_content)
            IN  /\ streaming_response_id' = NewResponseId(streaming_response_id, l)
                /\ IF choices # <<>> /\ DeltaGetRaises(delta)
                   THEN \* the exception leaves line 101: the id of lines 90-91
                        \* is already stored, lines 107-115 never run
                        /\ result' = "AttributeError"
                        /\ UNCHANGED <<streaming_texts, streaming_usage>>
                   ELSE /\ streaming_texts' =
                               IF updated
                               THEN Append(streaming_texts,
                                           Fragment(content, reasoning_content))
                               ELSE streaming_texts
                        /\ streaming_usage' = NewUsage(streaming_usage, usage)
                        /\ result' = IF updated THEN "1" ELSE "0"

ExtractorInit ==
    /\ streaming_texts = <<>>
    /\ streaming_response_id = None
    /\ streaming_usage = None
    /\ line = NoLine
    /\ result = "nocall"

ExtractorNext == \E l \in Lines : AddStreamingLine(l)

----------------------------------------------------------------------------
(* Lifecycle events and the remote sink's constants                        *)

MaxEvents == 5
MaxRouterEvents == 4
MaxOrphans == 1
TicksPerSecond == 2
Horizon == 3

MinUpdateSeconds == 1
MinProgressDelta == 2
CompleteProgress == 100
InitialLastUpdateTs == 0
InitialLastProgress == -1

\* time.time() is seconds since the epoch: the run starts at least a second
\* after it.
StartTime == MinUpdateSeconds * TicksPerSecond
MaxTime == StartTime + Horizon

\* scheduler_state.progress.remaining_fraction, in hundredths, or None.
RemainingFractions == {None, "90", "89", "87", "0"}
Hundredths(rf) ==
    CASE rf = "90" -> 90 [] rf = "89" -> 89 [] rf = "87" -> 87 [] rf = "0" -> 0

Event(m, rf) == [method |-> m, rf |-> rf]
SinkEvents ==
    {Event(m, None) : m \in {"on_initialize", "on_benchmark_start",
                              "on_benchmark_complete", "on_finalize"}}
        \cup {Event("on_benchmark_update", rf) : rf \in RemainingFractions}
RouterEvents ==
    {Event(m, None) : m \in {"on_initialize", "on_benchmark_start",
                              "on_benchmark_complete", "on_finalize"}}
        \cup {Event("on_benchmark_update", "87")}

\* The order in which the orchestrator emits events: one Initialize, then per
\* strategy a BenchmarkStart, any number of BenchmarkUpdate and one
\* BenchmarkComplete, then one Finalize. Any other sequence is "misuse".
NextPhase(ph, m) ==
    CASE ph = "new" /\ m = "on_initialize" -> "initialized"
      [] ph \in {"initialized", "completed"} /\ m = "on_benchmark_start" -> "started"
      [] ph = "started" /\ m = "on_benchmark_update" -> "started"
      [] ph = "started" /\ m = "on_benchmark_complete" -> "completed"
      [] ph \in {"initialized", "completed"} /\ m = "on_finalize" -> "finalized"
      [] OTHER -> "misuse"

ObserverLists ==
    {<<>>, <<"server", "other">>, <<"other", "server", "other">>}

N == Len(progresses)
Unfinished == {"scheduled", "suspended", "inflight"}
Finished == {"done", "failed"}

----------------------------------------------------------------------------
(* ServerBenchmarkerProgress                                               *)

\* on_benchmark_update: (1.0 - remaining_fraction) * 100, or 0.0 when unknown.
UpdateProgressValueRemaining(rf) ==
    IF rf # None THEN (Hundredths(rf) * 100) \div 100 ELSE 0
UpdateProgressValue(rf) ==
    IF rf # None THEN ((100 - Hundredths(rf)) * 100) \div 100 ELSE 0

\* The progress value each handler passes to _update_progress.
HandlerProgress(e) ==
    CASE e.method = "on_benchmark_start" -> 0
      [] e.method = "on_benchmark_update" -> UpdateProgressValue(e.rf)
      [] e.method = "on_benchmark_complete" -> 100
      [] OTHER -> 0

\* should_update of _update_progress.
ShouldUpdateAlways(now, progress) == TRUE
ShouldUpdateNoTimeRule(now, progress) ==
    \/ progress >= CompleteProgress
    \/ progress - last_progress >= MinProgressDelta
ShouldUpdateAbsDelta(now, progress) ==
    \/ now - last_update_ts >= MinUpdateSeconds * TicksPerSecond
    \/ progress >= CompleteProgress
    \/ progress - last_progress >= MinProgressDelta
    \/ last_progress - progress >= MinProgressDelta
ShouldUpdateNoCompletion(now, progress) ==
    \/ now - last_update_ts >= MinUpdateSeconds * TicksPerSecond
    \/ progress - last_progress >= MinProgressDelta
ShouldUpdate(now, progress) ==
    \/ now - last_update_ts >= MinUpdateSeconds * TicksPerSecond
    \/ progress >= CompleteProgress
    \/ progress - last_progress >= MinProgressDelta

----------------------------------------------------------------------------
(* asyncio.gather as ChainedBenchmarkerProgress._gather uses it            *)

PendingOuter == [state |-> "pending", raisedBy |-> 0, nfinished |-> 0]
ResultOuter(n) == [state |-> "result", raisedBy |-> 0, nfinished |-> n]

\* gather's done callback for child i ending in state st (return_exceptions
\* is False): the first exception is set on the outer future at once; the
\* result is set when the last child has finished; a resolved outer future
\* ignores what its children do later.
GatherDoneCallbackReturnExceptions(o, i, st, n) ==
    IF o.state # "pending" THEN o
    ELSE IF o.nfinished + 1 = n THEN ResultOuter(n)
    ELSE [o EXCEPT !.nfinished = @ + 1]
GatherDoneCallbackLastWins(o, i, st, n) ==
    IF st = "failed" /\ o.state # "result"
    THEN [o EXCEPT !.state = "exception", !.raisedBy = i]
    ELSE IF o.state # "pending" THEN o
    ELSE IF o.nfinished + 1 = n THEN ResultOuter(n)
    ELSE [o EXCEPT !.nfinished = @ + 1]
GatherDoneCallback(o, i, st, n) ==
    IF o.state # "pending" THEN o
    ELSE IF st = "failed" THEN [o EXCEPT !.state = "exception", !.raisedBy = i]
    ELSE IF o.nfinished + 1 = n THEN ResultOuter(n)
    ELSE [o EXCEPT !.nfinished = @ + 1]

\* getattr(p, method)(*args): the coroutine of one observer's handler, bound
\* to the method and the arguments of the dispatch that creates it.
NewTaskDropsArgs(e) ==
    [method |-> e.method, rf |-> None, state |-> "scheduled",
     found |-> "unread", progress |-> 0, now |-> 0, nreq |-> 0]
NewTask(e) ==
    [method |-> e.method, rf |-> e.rf, state |-> "scheduled",
     found |-> "unread", progress |-> 0, now |-> 0, nreq |-> 0]

\* Task k once the sink's handler has read self.session.
Ran(k) == [tasks[k] EXCEPT !.found = session]

\* The first step of task k is the call of observer k[2]'s handler.
NoCall == [n |-> 0, method |-> "none", rf |-> None]
Invoke(k) ==
    calls' = [calls EXCEPT ![k[2]] =
                 [n |-> @.n + 1, method |-> tasks[k].method, rf |-> tasks[k].rf]]

\* A child's state change, and what the gather of its own dispatch sees of it.
\* Children of an earlier dispatch report to a future that is already resolved,
\* and are forgotten as soon as they finish.
Settle(k, t) ==
    /\ tasks' = IF t.state \in Finished /\ k[1] < dispatched
                THEN [j \in DOMAIN tasks \ {k} |-> tasks[j]]
                ELSE [tasks EXCEPT ![k] = t]
    /\ outer' = IF t.state \in Finished /\ k[1] = dispatched
                THEN GatherDoneCallback(outer, k[2], t.state, N)
                ELSE outer

\* await self._gather(method, *args): one task per observer, all scheduled
\* before any of them runs. The finished tasks of the previous dispatch are
\* forgotten; unfinished ones keep running.
Dispatch(e) ==
    /\ pc = "idle"
    /\ dispatched' = dispatched + 1
    /\ phase' = NextPhase(phase, e.method)
    /\ event' = e
    /\ pc' = "awaiting"
    /\ outer' = IF N = 0 THEN ResultOuter(0) ELSE PendingOuter
    /\ LET live == {k \in DOMAIN tasks : tasks[k].state \in Unfinished}
           new == {<<dispatched + 1, i>> : i \in 1..N}
       IN tasks' = [k \in live \cup new |->
                       IF k \in new THEN NewTask(e) ELSE tasks[k]]
    /\ UNCHANGED <<progresses, calls, sinkVars, extractorVars>>

\* A caller that may emit any event at any time.
DispatchAny(e) == dispatched < MaxEvents /\ Dispatch(e)

\* The orchestrator, which emits events in lifecycle order.
DispatchInOrder(e) ==
    /\ dispatched < MaxRouterEvents
    /\ Cardinality({k \in DOMAIN tasks : tasks[k].state \in Unfinished}) <= MaxOrphans
    /\ NextPhase(phase, e.method) # "misuse"
    /\ Dispatch(e)

\* The awaiting caller resumes once the outer future is resolved. The event
\* loop runs callbacks first-in first-out, so every child has run to its first
\* suspension by then.
GatherReturn ==
    /\ pc = "awaiting"
    /\ outer.state # "pending"
    /\ \A i \in 1..N : tasks[<<dispatched, i>>].state # "scheduled"
    /\ pc' = "idle"
    /\ UNCHANGED <<progresses, dispatched, phase, event, calls, outer, tasks,
                   sinkVars, extractorVars>>

\* A scheduled task may take its first step once the tasks created before it
\* in the same gather have taken theirs.
MayStart(k) ==
    /\ k \in DOMAIN tasks
    /\ tasks[k].state = "scheduled"
    /\ \A j \in 1..(k[2] - 1) : tasks[<<k[1], j>>].state # "scheduled"

\* An observer other than the sink: its handler returns, raises, or suspends.
OtherStart(k) ==
    /\ MayStart(k)
    /\ Invoke(k)
    /\ progresses[k[2]] = "other"
    /\ \E st \in {"done", "failed", "suspended"} :
           Settle(k, [tasks[k] EXCEPT !.state = st])
    /\ UNCHANGED <<progresses, pc, dispatched, phase, event, sinkVars, extractorVars>>

OtherResume(k) ==
    /\ k \in DOMAIN tasks
    /\ tasks[k].state = "suspended"
    /\ \E st \in {"done", "failed"} :
           Settle(k, [tasks[k] EXCEPT !.state = st])
    /\ UNCHANGED <<progresses, pc, dispatched, phase, event, calls, sinkVars, extractorVars>>

\* ServerBenchmarkerProgress.on_initialize: no suspension point.
ServerInitializeReopens(k) ==
    /\ MayStart(k)
    /\ Invoke(k)
    /\ progresses[k[2]] = "server"
    /\ tasks[k].method = "on_initialize"
    /\ session' = IF session # "open" THEN "open" ELSE session
    /\ sessions_created' = IF session # "open" THEN sessions_created + 1
                           ELSE sessions_created
    /\ Settle(k, [Ran(k) EXCEPT !.state = "done"])
    /\ UNCHANGED <<progresses, pc, dispatched, phase, event, sessions_closed,
                   last_update_ts, last_progress, clock, extractorVars>>
ServerInitialize(k) ==
    /\ MayStart(k)
    /\ Invoke(k)
    /\ progresses[k[2]] = "server"
    /\ tasks[k].method = "on_initialize"
    /\ session' = IF session = None THEN "open" ELSE session
    /\ sessions_created' = IF session = None THEN sessions_created + 1
                           ELSE sessions_created
    /\ Settle(k, [Ran(k) EXCEPT !.state = "done"])
    /\ UNCHANGED <<progresses, pc, dispatched, phase, event, sessions_closed,
                   last_update_ts, last_progress, clock, extractorVars>>

\* ServerBenchmarkerProgress.on_finalize: None has no close(); closing a
\* closed aiohttp session does nothing.
ServerFinalizeLeavesOpen(k) ==
    /\ MayStart(k)
    /\ Invoke(k)
    /\ progresses[k[2]] = "server"
    /\ tasks[k].method = "on_finalize"
    /\ Settle(k, [Ran(k) EXCEPT !.state = IF session = None THEN "failed" ELSE "done"])
    /\ UNCHANGED <<progresses, pc, dispatched, phase, event, sinkVars, extractorVars>>
ServerFinalizeClosedEitherWay(k) ==
    /\ MayStart(k)
    /\ Invoke(k)
    /\ progresses[k[2]] = "server"
    /\ tasks[k].method = "on_finalize"
    /\ \E st \in {"done", "failed"} :
           /\ st = "failed" => session # "open"
           /\ st = "done" => session # None
           /\ Settle(k, [Ran(k) EXCEPT !.state = st])
    /\ session' = IF session = None THEN None ELSE "closed"
    /\ sessions_closed' = IF session = "open" THEN sessions_closed + 1
                          ELSE sessions_closed
    /\ UNCHANGED <<progresses, pc, dispatched, phase, event, sessions_created,
                   last_update_ts, last_progress, clock, extractorVars>>
ServerFinalize(k) ==
    /\ MayStart(k)
    /\ Invoke(k)
    /\ progresses[k[2]] = "server"
    /\ tasks[k].method = "on_finalize"
    /\ IF session = None
       THEN /\ Settle(k, [Ran(k) EXCEPT !.state = "failed"])
            /\ UNCHANGED <<session, sessions_closed>>
       ELSE /\ Settle(k, [Ran(k) EXCEPT !.state = "done"])
            /\ session' = "closed"
            /\ sessions_closed' = IF session = "open" THEN sessions_closed + 1
                                  ELSE sessions_closed
    /\ UNCHANGED <<progresses, pc, dispatched, phase, event, sessions_created,
                   last_update_ts, last_progress, clock, extractorVars>>

\* if self.session is None: return
NoSessionNever(s) == FALSE
NoSession(s) == s = None

\* on_benchmark_start / _update / _complete, up to the await of session.patch
\* in _update_progress.
ServerUpdateProgress(k) ==
    /\ MayStart(k)
    /\ Invoke(k)
    /\ progresses[k[2]] = "server"
    /\ tasks[k].method \in
           {"on_benchmark_start", "on_benchmark_update", "on_benchmark_complete"}
    /\ LET progress == HandlerProgress(tasks[k])
           t == [Ran(k) EXCEPT !.progress = progress, !.now = clock]
       IN  IF NoSession(session)
           THEN Settle(k, [Ran(k) EXCEPT !.progress = progress, !.state = "done"])
           ELSE IF ~ShouldUpdate(clock, progress)
           THEN Settle(k, [t EXCEPT !.state = "done"])
           ELSE IF session = "closed"
           THEN \* aiohttp refuses a closed session: RuntimeError, no request
                Settle(k, [t EXCEPT !.state = "failed"])
           ELSE Settle(k, [t EXCEPT !.state = "inflight", !.nreq = 1])
    /\ UNCHANGED <<progresses, pc, dispatched, phase, event, sinkVars, extractorVars>>

\* The response to the PATCH: a success status stores the value and the
\* timestamp taken before the request; anything else raises RuntimeError.
ServerResponseClosesOnFailure(k) ==
    /\ k \in DOMAIN tasks
    /\ tasks[k].state = "inflight"
    /\ \/ /\ last_progress' = tasks[k].progress
          /\ last_update_ts' = tasks[k].now
          /\ Settle(k, [tasks[k] EXCEPT !.state = "done"])
          /\ UNCHANGED <<session, sessions_closed>>
       \/ /\ Settle(k, [tasks[k] EXCEPT !.state = "failed"])
          /\ session' = "closed"
          /\ sessions_closed' = IF session = "open" THEN sessions_closed + 1
                                ELSE sessions_closed
          /\ UNCHANGED <<last_progress, last_update_ts>>
    /\ UNCHANGED <<progresses, pc, dispatched, phase, event, calls,
                   sessions_created, clock, extractorVars>>
ServerResponseStoresOnFailure(k) ==
    /\ k \in DOMAIN tasks
    /\ tasks[k].state = "inflight"
    /\ last_progress' = tasks[k].progress
    /\ last_update_ts' = tasks[k].now
    /\ \E st \in {"done", "failed"} : Settle(k, [tasks[k] EXCEPT !.state = st])
    /\ UNCHANGED <<progresses, pc, dispatched, phase, event, calls, session, sessions_created,
                   sessions_closed, clock, extractorVars>>
ServerResponse(k) ==
    /\ k \in DOMAIN tasks
    /\ tasks[k].state = "inflight"
    /\ \/ /\ last_progress' = tasks[k].progress
          /\ last_update_ts' = tasks[k].now
          /\ Settle(k, [tasks[k] EXCEPT !.state = "done"])
       \/ /\ Settle(k, [tasks[k] EXCEPT !.state = "failed"])
          /\ UNCHANGED <<last_progress, last_update_ts>>
    /\ UNCHANGED <<progresses, pc, dispatched, phase, event, calls, session, sessions_created,
                   sessions_closed, clock, extractorVars>>

Tick ==
    /\ clock < MaxTime
    /\ clock' = clock + 1
    /\ UNCHANGED <<routerVars, session, sessions_created, sessions_closed,
                   last_update_ts, last_progress, extractorVars>>

TaskStep(k) ==
    \/ OtherStart(k)
    \/ OtherResume(k)
    \/ ServerInitialize(k)
    \/ ServerFinalize(k)
    \/ ServerUpdateProgress(k)
    \/ ServerResponse(k)

RouterSinkInit ==
    /\ pc = "idle"
    /\ dispatched = 0
    /\ phase = "new"
    /\ event = Event("none", None)
    /\ calls = [i \in 1..N |-> NoCall]
    /\ outer = ResultOuter(0)
    /\ tasks = <<>>
    /\ session = None
    /\ sessions_created = 0
    /\ sessions_closed = 0
    /\ last_update_ts = InitialLastUpdateTs
    /\ last_progress = InitialLastProgress
    /\ clock = StartTime

----------------------------------------------------------------------------
(* Properties of the router and the remote sink                            *)

IsServer(k) == progresses[k[2]] = "server"
TaskState(k) == IF k \in DOMAIN tasks THEN tasks[k].state ELSE "gone"
Current(i) == tasks[<<dispatched, i>>]
FailedNow == {i \in 1..N : Current(i).state = "failed"}

\* The step in which task k's handler ran from its start to its first
\* suspension or to its end.
Handled(k) ==
    /\ tasks[k].state = "scheduled"
    /\ k \in DOMAIN tasks'
    /\ tasks'[k].state # "scheduled"

\* C1: whenever a dispatch has returned to its caller, normally or with a
\* failure, every observer task of that dispatch has completed.
C1_ReturnsAfterAllTasks ==
    (pc = "idle" /\ dispatched > 0) =>
        \A i \in 1..N : Current(i).state \in Finished

\* C2: when exactly one observer of a dispatch fails, the failure the dispatch
\* surfaces is that observer's and its siblings end normally; once the caller
\* has resumed every sibling has been started; and no failure stops a sibling:
\* every unfinished task can still take its next step (or, not yet started,
\* waits only for a task scheduled before it).
C2_LoneFailureSurfaced ==
    /\ N >= 2
    /\ dispatched > 0
    /\ \A i \in 1..N : Current(i).state \in Finished
    /\ Cardinality(FailedNow) = 1
    => /\ outer.state = "exception"
       /\ outer.raisedBy \in FailedNow
       /\ \A j \in (1..N) \ FailedNow : Current(j).state = "done"
C2_AllStartedAtReturn ==
    (pc = "idle" /\ dispatched > 0) =>
        \A i \in 1..N : Current(i).state # "scheduled"
C2_NoTaskStopped ==
    \A k \in DOMAIN tasks :
        tasks[k].state \in Unfinished =>
            \/ ENABLED TaskStep(k)
            \/ \E j \in 1..(k[2] - 1) : TaskState(<<k[1], j>>) = "scheduled"
C2_SiblingsRunToCompletion ==
    /\ C2_LoneFailureSurfaced
    /\ C2_AllStartedAtReturn
    /\ C2_NoTaskStopped

\* C2 witness: of three observers the second, the sink, failed in its push
\* and the dispatch surfaced that failure; the first and third ran to the end.
C2_Witness ==
    /\ progresses = <<"other", "server", "other">>
    /\ dispatched > 0
    /\ Current(1).state = "done"
    /\ Current(2).state = "failed"
    /\ Current(2).nreq = 1
    /\ Current(3).state = "done"
    /\ outer.state = "exception"
    /\ outer.raisedBy = 2
    /\ pc = "idle"

\* C3 (as stated): with the session open, BenchmarkStart / BenchmarkUpdate
\* issue a request iff a second has passed since the last successful push, or
\* the value differs from the last sent one by 2 points or more in either
\* direction, or the value is at least 100.
C3_SendsIffChangedEitherWay ==
    [][\A k \in DOMAIN tasks :
          (/\ Handled(k)
           /\ IsServer(k)
           /\ tasks[k].method \in {"on_benchmark_start", "on_benchmark_update"}
           /\ session = "open") =>
              LET p == tasks'[k].progress IN
              (tasks'[k].nreq = 1) <=>
                  \/ clock - last_update_ts >= TicksPerSecond
                  \/ p - last_progress >= 2
                  \/ last_progress - p >= 2
                  \/ p >= 100]_vars

\* C3 (amended): with the session open, BenchmarkStart / BenchmarkUpdate issue
\* a request iff a second has passed since the last successful push, or the
\* value is at least 2 points above the last sent one, or the value is at
\* least 100.
C3_SendsIffRaised ==
    [][\A k \in DOMAIN tasks :
          (/\ Handled(k)
           /\ IsServer(k)
           /\ tasks[k].method \in {"on_benchmark_start", "on_benchmark_update"}
           /\ session = "open") =>
              LET p == tasks'[k].progress IN
              (tasks'[k].nreq = 1) <=>
                  \/ clock - last_update_ts >= TicksPerSecond
                  \/ p - last_progress >= 2
                  \/ p >= 100]_vars

\* C3 witness: half a second after a successful push of 10, the value 13 is
\* on its way to the endpoint.
C3_Witness ==
    /\ dispatched > 0
    /\ IsServer(<<dispatched, 1>>)
    /\ Current(1).method = "on_benchmark_update"
    /\ Current(1).state = "inflight"
    /\ Current(1).nreq = 1
    /\ Current(1).progress = 13
    /\ last_progress = 10
    /\ clock - last_update_ts < TicksPerSecond
    /\ clock > last_update_ts

\* C4: with the session open, BenchmarkComplete issues exactly one request,
\* carrying 100, whatever the last-sent timestamp and value are: the handler
\* sends it and no later step of the handler sends another.
C4_CompletionAlwaysSent ==
    [][\A k \in DOMAIN tasks :
          /\ (/\ Handled(k)
              /\ IsServer(k)
              /\ tasks[k].method = "on_benchmark_complete"
              /\ session = "open") =>
                 /\ tasks'[k].nreq = 1
                 /\ tasks'[k].progress = 100
                 /\ tasks'[k].state = "inflight"
          /\ (tasks[k].state = "inflight" /\ k \in DOMAIN tasks') =>
                 tasks'[k].nreq = tasks[k].nreq]_vars

\* C4 witness: the completion push is on its way although 100 was sent
\* successfully in the same instant, so neither the time nor the delta rule
\* would let it through.
C4_Witness ==
    /\ dispatched > 0
    /\ IsServer(<<dispatched, 1>>)
    /\ phase = "completed"
    /\ Current(1).method = "on_benchmark_complete"
    /\ Current(1).state = "inflight"
    /\ Current(1).nreq = 1
    /\ last_progress = 100
    /\ clock = last_update_ts

\* The step in which task k's handler issued its HTTP request.
Issued(k) ==
    /\ k \in DOMAIN tasks
    /\ k \in DOMAIN tasks'
    /\ tasks[k].nreq = 0
    /\ tasks'[k].nreq = 1

\* C12: while the events come in lifecycle order, the sink constructs at most
\* one HTTP session and closes at most one; once the Finalize dispatch has
\* returned it has constructed exactly one and closed it exactly once; and
\* every request is issued while that session exists and is not yet closed.
C12_OneSessionOpenedAndClosed ==
    [][(phase' # "misuse" /\ \E i \in 1..N : progresses[i] = "server") =>
          /\ sessions_created' <= 1
          /\ sessions_closed' <= sessions_created'
          /\ (phase' = "finalized" /\ pc' = "idle") =>
                 /\ sessions_created' = 1
                 /\ sessions_closed' = 1
                 /\ session' = "closed"
          /\ \A k \in DOMAIN tasks :
                 Issued(k) =>
                     /\ session = "open"
                     /\ sessions_created = 1
                     /\ sessions_closed = 0]_vars

\* C12 witness: a whole lifecycle has been served; the completion push went
\* through the one session, which Finalize then closed.
C12_Witness ==
    /\ phase = "finalized"
    /\ pc = "idle"
    /\ dispatched = 5
    /\ sessions_created = 1
    /\ sessions_closed = 1
    /\ session = "closed"
    /\ last_progress = 100

\* The step in which the push of task k ended, successfully or with a failure.
Succeeded(k) == tasks[k].state = "inflight" /\ TaskState(k)' = "done"
PushFailed(k) == tasks[k].state = "inflight" /\ TaskState(k)' = "failed"

\* C13: the last-sent value and timestamp are -1 and 0 before any event; a
\* step in which a push succeeds sets both, to the value pushed and to the
\* time taken for that push; every other step, a failed push among them,
\* changes neither. So they are always those of the latest successful push.
C13_LastSentIsLastSuccess ==
    [][/\ dispatched = 0 => (last_progress = -1 /\ last_update_ts = 0)
       /\ \A k \in DOMAIN tasks :
              Succeeded(k) =>
                  /\ last_progress' = tasks[k].progress
                  /\ last_update_ts' = tasks[k].now
                  /\ tasks[k].progress = HandlerProgress(tasks[k])
       /\ (~ \E k \in DOMAIN tasks : Succeeded(k)) =>
              UNCHANGED <<last_progress, last_update_ts>>]_vars

\* C13 witness: a push of 13 has just failed, later than the successful push
\* of 10 whose value and earlier timestamp are still the stored ones.
C13_Witness ==
    /\ dispatched > 0
    /\ IsServer(<<dispatched, 1>>)
    /\ Current(1).state = "failed"
    /\ Current(1).nreq = 1
    /\ Current(1).progress = 13
    /\ last_progress = 10
    /\ last_update_ts < Current(1).now

\* C14: when several observers fail in one dispatch, the failure the dispatch
\* holds for its caller is that of an observer that failed, it is set in the
\* step of the first failure (no observer of the dispatch had failed before),
\* no later failure replaces it, and a failure of a task left over from an
\* earlier dispatch never reaches the future of a later dispatch.
C14_FirstFailureOnly ==
    [][(dispatched' = dispatched /\ dispatched > 0) =>
          /\ FailedNow' # {} =>
                 (outer'.state = "exception" /\ outer'.raisedBy \in FailedNow')
          /\ (outer.state = "pending" /\ outer'.state = "exception") =>
                 (FailedNow = {} /\ FailedNow' = {outer'.raisedBy})
          /\ outer.state = "exception" => outer' = outer
          /\ \A k \in DOMAIN tasks :
                 (k[1] < dispatched /\ TaskState(k)' # tasks[k].state) =>
                     outer' = outer]_vars

\* C14 witness: observer #3 failed while observer #1 was suspended, observer
\* #1 failed afterwards; the dispatch has raised observer #3's failure.
C14_Witness ==
    /\ progresses = <<"other", "server", "other">>
    /\ dispatched > 0
    /\ Current(1).state = "failed"
    /\ Current(3).state = "failed"
    /\ outer.state = "exception"
    /\ outer.raisedBy = 3
    /\ pc = "idle"

\* The progress value of the event task t handles: 0 at a strategy's start,
\* the completed percentage at an update (0 when unknown), 100 at completion.
EventValue(t) ==
    CASE t.method = "on_benchmark_start" -> 0
      [] t.method = "on_benchmark_complete" -> 100
      [] t.method = "on_benchmark_update" ->
             IF t.rf = None THEN 0 ELSE 100 - Hundredths(t.rf)

\* None of the three conditions for sending holds for the value p now.
Throttled(p) ==
    /\ clock - last_update_ts < TicksPerSecond
    /\ p - last_progress < 2
    /\ p < 100

\* C15: with the session open, the handler of a throttled BenchmarkStart /
\* BenchmarkUpdate ends normally in the same step, without a request and
\* without changing the last-sent value and timestamp; a request is issued
\* only by the handler of the event being handled, in the step that handles
\* it and with that event's value; a handler that has ended never sends (or
\* changes) anything later.
C15_ThrottledIsDropped ==
    [][\A k \in DOMAIN tasks :
          /\ (/\ Handled(k)
              /\ IsServer(k)
              /\ tasks[k].method \in {"on_benchmark_start", "on_benchmark_update"}
              /\ session = "open"
              /\ Throttled(EventValue(tasks[k]))) =>
                 /\ tasks'[k].state = "done"
                 /\ tasks'[k].nreq = 0
                 /\ UNCHANGED <<last_progress, last_update_ts>>
          /\ Issued(k) =>
                 /\ Handled(k)
                 /\ tasks'[k].progress = EventValue(tasks[k])
          /\ (tasks[k].state \in Finished /\ k \in DOMAIN tasks') =>
                 tasks'[k] = tasks[k]]_vars

\* C15 witness: the update to 11 arrived within the second after the
\* successful push of 10 and was dropped.
C15_Witness ==
    /\ dispatched > 0
    /\ IsServer(<<dispatched, 1>>)
    /\ session = "open"
    /\ Current(1).method = "on_benchmark_update"
    /\ Current(1).state = "done"
    /\ Current(1).nreq = 0
    /\ Current(1).progress = 11
    /\ last_progress = 10
    /\ Current(1).now - last_update_ts < TicksPerSecond

\* C16: a handler is called only for the latest dispatched event, on an
\* observer that has received each earlier event exactly once, and with that
\* event's method and argument; nothing else calls a handler; when a dispatch
\* has returned, every observer has received every event dispatched so far
\* exactly once. With no observers a dispatch calls nothing, holds a normal
\* result and can return at once.
C16_EachObserverOncePerEvent ==
    [][/\ \A k \in DOMAIN tasks :
              Handled(k) =>
                  /\ k[1] = dispatched
                  /\ calls[k[2]].n = dispatched - 1
                  /\ calls'[k[2]] =
                         [n |-> dispatched, method |-> event.method, rf |-> event.rf]
                  /\ \A i \in 1..N : i # k[2] => calls'[i] = calls[i]
       /\ (\A k \in DOMAIN tasks : ~Handled(k)) => calls' = calls
       /\ pc' = "idle" => \A i \in 1..N : calls'[i].n = dispatched'
       /\ (N = 0 /\ pc = "awaiting") =>
              /\ tasks = <<>>
              /\ outer.state = "result"
              /\ ENABLED GatherReturn]_vars

\* C16 witness: three observers have each received Initialize, BenchmarkStart
\* and the update with remaining fraction 0.87, the latest call being the
\* update, and the third dispatch has returned.
C16_Witness ==
    /\ progresses = <<"other", "server", "other">>
    /\ dispatched = 3
    /\ pc = "idle"
    /\ event = Event("on_benchmark_update", "87")
    /\ \A i \in 1..N :
           calls[i] = [n |-> 3, method |-> "on_benchmark_update", rf |-> "87"]

\* C17: a push that fails on an open session leaves the sink with that same
\* session, still open (none constructed, none closed); and whenever the
\* session is open, so also after failed pushes, the Finalize handler closes
\* it and ends normally.
C17_FailedPushKeepsSession ==
    [][\A k \in DOMAIN tasks :
          /\ (PushFailed(k) /\ session = "open") =>
                 /\ session' = "open"
                 /\ UNCHANGED <<sessions_created, sessions_closed>>
          /\ (/\ Handled(k)
              /\ IsServer(k)
              /\ tasks[k].method = "on_finalize"
              /\ session = "open") =>
                 /\ session' = "closed"
                 /\ sessions_closed' = sessions_closed + 1
                 /\ tasks'[k].state = "done"]_vars

\* C17 witness: Initialize, BenchmarkStart, BenchmarkComplete and Finalize
\* have been handled in order; the completion push, which is always sent, has
\* failed like every push before it (the last-sent value is still -1), and
\* Finalize has closed the session all the same.
C17_Witness ==
    /\ phase = "finalized"
    /\ dispatched >= 4
    /\ IsServer(<<dispatched, 1>>)
    /\ Current(1).method = "on_finalize"
    /\ Current(1).state = "done"
    /\ last_progress = -1
    /\ session = "closed"
    /\ sessions_closed = 1

\* A failed push ends its handler after the one request it issued, and the
\* handler, once failed, does nothing more (no retry).
OneAttempt(k) ==
    /\ PushFailed(k) => (tasks[k].nreq = 1 /\ tasks'[k].nreq = 1)
    /\ (tasks[k].state = "failed" /\ k \in DOMAIN tasks') => tasks'[k] = tasks[k]

\* C18 (as stated): a push that fails makes the sink's handler fail after
\* exactly one request, without retry, and that failure is the one the
\* dispatch it belongs to holds for its caller.
C18_SinkFailureReported ==
    [][\A k \in DOMAIN tasks :
          /\ OneAttempt(k)
          /\ (PushFailed(k) /\ k[1] = dispatched) =>
                 (outer'.state = "exception" /\ outer'.raisedBy = k[2])]_vars

\* C18 (amended): a push that fails makes the sink's handler fail after
\* exactly one request, without retry; the dispatch it belongs to then holds a
\* failure for its caller: the sink's, unless another observer of that
\* dispatch had failed before, whose failure stays the one reported.
C18_SinkFailureReportedUnlessPreceded ==
    [][\A k \in DOMAIN tasks :
          /\ OneAttempt(k)
          /\ (PushFailed(k) /\ k[1] = dispatched) =>
                 /\ outer'.state = "exception"
                 /\ IF outer.state = "exception"
                    THEN /\ outer' = outer
                         /\ outer.raisedBy # k[2]
                         /\ Current(outer.raisedBy).state = "failed"
                    ELSE outer'.raisedBy = k[2]]_vars

\* C18 witness: the sink's push failed after the other observer had failed;
\* the dispatch reports the other observer's failure.
C18_Witness ==
    /\ progresses = <<"server", "other">>
    /\ dispatched > 0
    /\ Current(1).state = "failed"
    /\ Current(1).nreq = 1
    /\ Current(2).state = "failed"
    /\ outer.state = "exception"
    /\ outer.raisedBy = 2

\* C21: the Initialize handler of a sink whose session is already open fails.
C21_DoubleOpenFails ==
    [][\A k \in DOMAIN tasks :
          (/\ Handled(k)
           /\ IsServer(k)
           /\ tasks[k].method = "on_initialize"
           /\ session = "open") =>
              tasks'[k].state = "failed"]_vars

\* C22: the Finalize handler of a sink whose session is already closed has
\* one outcome, a normal return; it issues no request and leaves the session
\* closed, no session constructed or closed again, and the last-sent value and
\* timestamp as they were.
C22_SecondFinalizeIsNoOp ==
    [][\A k \in DOMAIN tasks :
          (/\ Handled(k)
           /\ IsServer(k)
           /\ tasks[k].method = "on_finalize"
           /\ session = "closed") =>
              /\ tasks'[k].state = "done"
              /\ tasks'[k].nreq = 0
              /\ session' = "closed"
              /\ UNCHANGED <<sessions_created, sessions_closed, last_update_ts,
                             last_progress>>]_vars

\* C22 witness: after a successful push, a Finalize handler that found the
\* session already closed has returned; the session has been closed once.
C22_Witness ==
    /\ dispatched >= 4
    /\ IsServer(<<dispatched, 1>>)
    /\ Current(1).method = "on_finalize"
    /\ Current(1).found = "closed"
    /\ Current(1).state = "done"
    /\ session = "closed"
    /\ sessions_closed = 1
    /\ last_progress = 0

PushMethods == {"on_benchmark_start", "on_benchmark_update", "on_benchmark_complete"}

\* C23: with the session open and no push sent successfully so far (the
\* last-sent value and timestamp are still -1 and 0), the handler of
\* BenchmarkStart, BenchmarkUpdate or BenchmarkComplete issues a request,
\* whatever its progress value and whatever the clock reads.
C23_FirstPushIsSent ==
    [][\A k \in DOMAIN tasks :
          (/\ Handled(k)
           /\ IsServer(k)
           /\ tasks[k].method \in PushMethods
           /\ session = "open"
           /\ last_progress = -1
           /\ last_update_ts = 0) =>
              /\ tasks'[k].nreq = 1
              /\ tasks'[k].state = "inflight"]_vars

\* C23 witness: the first push carries the value 0, one point above the
\* sentinel, at the earliest clock reading, and is on its way.
C23_Witness ==
    /\ dispatched > 0
    /\ IsServer(<<dispatched, 1>>)
    /\ Current(1).method = "on_benchmark_update"
    /\ Current(1).rf = None
    /\ Current(1).state = "inflight"
    /\ Current(1).progress = 0
    /\ Current(1).now = StartTime
    /\ last_progress = -1
    /\ last_update_ts = 0

\* C24: the value a handler passes on is 0 for BenchmarkStart, 100 for
\* BenchmarkComplete, and for BenchmarkUpdate 100 times one minus the
\* remaining fraction, or 0 when the fraction is unknown; every value a
\* request carries lies in 0..100.
C24_ProgressValues ==
    [][\A k \in DOMAIN tasks :
          /\ (Handled(k) /\ IsServer(k) /\ tasks[k].method \in PushMethods) =>
                 tasks'[k].progress =
                     CASE tasks[k].method = "on_benchmark_start" -> 0
                       [] tasks[k].method = "on_benchmark_complete" -> 100
                       [] tasks[k].rf = None -> 0
                       [] OTHER -> 100 - Hundredths(tasks[k].rf)
          /\ Issued(k) => tasks'[k].progress \in 0..100]_vars

\* C24 witness: an update with remaining fraction 0.87 is being sent as 13.
C24_Witness ==
    /\ dispatched > 0
    /\ IsServer(<<dispatched, 1>>)
    /\ Current(1).method = "on_benchmark_update"
    /\ Current(1).rf = "87"
    /\ Current(1).state = "inflight"
    /\ Current(1).nreq = 1
    /\ Current(1).progress = 13

\* C25: when a handler of some dispatch starts, every handler of every
\* earlier dispatch has ended.
C25_NoOverlapAcrossDispatches ==
    [][\A k \in DOMAIN tasks :
          Handled(k) =>
              \A j \in DOMAIN tasks : j[1] < k[1] => tasks[j].state \in Finished]_vars

\* The sink's pushes that are in flight.
InFlight == {k \in DOMAIN tasks : IsServer(k) /\ tasks[k].state = "inflight"}

\* C26: the sink never has two pushes in flight at once, and its session is
\* never closed while one of its pushes is in flight.
C26_OnePushAndNoCloseUnderIt ==
    /\ Cardinality(InFlight) <= 1
    /\ session = "closed" => InFlight = {}

\* The two halves of C26, each on its own.
C26_OnePushInFlight == Cardinality(InFlight) <= 1
C26_NoCloseUnderPush == session = "closed" => InFlight = {}

\* C27: once the session is closed it stays closed and no session is
\* constructed any more, whatever event is handled, Initialize included; the
\* handlers of BenchmarkStart, BenchmarkUpdate and BenchmarkComplete then end
\* without a request, and the last-sent value and timestamp never change.
C27_ClosedIsTerminal ==
    [][session = "closed" =>
          /\ session' = "closed"
          /\ sessions_created' = sessions_created
          /\ UNCHANGED <<last_progress, last_update_ts>>
          /\ \A k \in DOMAIN tasks :
                 /\ ~Issued(k)
                 /\ (Handled(k) /\ IsServer(k) /\ tasks[k].method \in PushMethods) =>
                        (tasks'[k].state \in Finished /\ tasks'[k].nreq = 0)]_vars

\* C27 witness: a completion push was attempted on the closed session; it
\* failed without a request and the last-sent value is still the earlier 0.
C27_Witness ==
    /\ dispatched >= 4
    /\ IsServer(<<dispatched, 1>>)
    /\ Current(1).method = "on_benchmark_complete"
    /\ Current(1).found = "closed"
    /\ Current(1).state = "failed"
    /\ Current(1).nreq = 0
    /\ session = "closed"
    /\ sessions_created = 1
    /\ last_progress = 0

\* The BenchmarkStart of a later strategy is being handled: the events came
\* in lifecycle order, the previous strategy's completion push of 100 was the
\* last successful push, and the session is open.
LaterStart(k) ==
    /\ Handled(k)
    /\ IsServer(k)
    /\ tasks[k].method = "on_benchmark_start"
    /\ phase = "started"
    /\ session = "open"
    /\ last_progress = 100

\* C28 (as stated): the BenchmarkStart of a later strategy issues a request
\* carrying 0, also when less than a second has passed since the completion
\* push of 100.
C28_LaterStartSendsZero ==
    [][\A k \in DOMAIN tasks :
          LaterStart(k) => (tasks'[k].nreq = 1 /\ tasks'[k].progress = 0)]_vars

\* C28 (amended): the BenchmarkStart of a later strategy issues a request
\* carrying 0 if a second or more has passed since the completion push of
\* 100; within that second it is dropped: no request, normal return, last-sent
\* value still 100.
C28_LaterStartSendsZeroAfterASecond ==
    [][\A k \in DOMAIN tasks :
          LaterStart(k) =>
              IF clock - last_update_ts >= TicksPerSecond
              THEN /\ tasks'[k].nreq = 1
                   /\ tasks'[k].progress = 0
                   /\ tasks'[k].state = "inflight"
              ELSE /\ tasks'[k].nreq = 0
                   /\ tasks'[k].state = "done"
                   /\ last_progress' = 100]_vars

\* C28 witness: the second strategy's BenchmarkStart came within the second
\* after the successful completion push and was dropped.
C28_Witness ==
    /\ dispatched >= 4
    /\ IsServer(<<dispatched, 1>>)
    /\ phase = "started"
    /\ Current(1).method = "on_benchmark_start"
    /\ Current(1).found = "open"
    /\ Current(1).state = "done"
    /\ Current(1).nreq = 0
    /\ Current(1).now - last_update_ts < TicksPerSecond
    /\ last_progress = 100

\* C31: while the sink has no session, the handlers of BenchmarkStart,
\* BenchmarkUpdate and BenchmarkComplete end normally in the step that starts
\* them, without a request, and leave the sink without a session and the
\* last-sent value and timestamp as they were.
C31_NoSessionNoPush ==
    [][\A k \in DOMAIN tasks :
          (/\ Handled(k)
           /\ IsServer(k)
           /\ tasks[k].method \in PushMethods
           /\ session = None) =>
              /\ tasks'[k].state = "done"
              /\ tasks'[k].nreq = 0
              /\ session' = None
              /\ UNCHANGED <<sessions_created, last_progress, last_update_ts>>]_vars

\* C31 witness: a completion event was handled by a sink that had never been
\* initialized; the handler returned and nothing was sent.
C31_Witness ==
    /\ dispatched > 0
    /\ IsServer(<<dispatched, 1>>)
    /\ Current(1).method = "on_benchmark_complete"
    /\ Current(1).found = None
    /\ Current(1).progress = 100
    /\ Current(1).state = "done"
    /\ Current(1).nreq = 0
    /\ session = None
    /\ last_progress = -1
    /\ last_update_ts = 0

----------------------------------------------------------------------------
(* Properties of add_streaming_line                                        *)

\* A valid payload: a line that decodes to a non-empty payload.
ValidPayload(l) == l.kind = "payload" /\ ExtractLineData(l) = "dict"

\* The latest call was given a valid payload with at least one choice, whose
\* first delta is an object or missing, so that it can have keys (a delta
\* that is itself null is the case of C11).
HasChoice(l) ==
    /\ ValidPayload(l)
    /\ l.choices # <<>>
    /\ l.choices[1].kind # "null"
FirstDelta(l) == l.choices[1]
KeyPresent(v) == v # Absent
NonNull(v) == v \notin {Absent, None}
Last(s) == s[Len(s)]

\* The call appended exactly the fragment f, or nothing; both as actions.
Appended(f) == streaming_texts' = Append(streaming_texts, f)
AppendedOne ==
    /\ Len(streaming_texts') = Len(streaming_texts) + 1
    /\ SubSeq(streaming_texts', 1, Len(streaming_texts)) = streaming_texts
AppendedNothing == streaming_texts' = streaming_texts

C6_EmptyContentIsToken ==
    [][(HasChoice(line') /\ FirstDelta(line') = DictDelta("", Absent)) =>
          result' = "1" /\ Appended("")]_vars

\* C6 witness: such a line was processed after another fragment, with an id and
\* a usage snapshot already stored.
C6_Witness ==
    /\ HasChoice(line)
    /\ FirstDelta(line) = DictDelta("", Absent)
    /\ result = "1"
    /\ Len(streaming_texts) >= 2
    /\ Last(streaming_texts) = ""
    /\ streaming_texts[1] # ""
    /\ streaming_usage # None

C8_ReasoningOnly ==
    [][(/\ HasChoice(line')
        /\ FirstDelta(line').kind = "dict"
        /\ FirstDelta(line').content = Absent
        /\ Truthy(FirstDelta(line').reasoning_content)) =>
          result' = "1" /\ Appended(FirstDelta(line').reasoning_content)]_vars

\* C8 witness: a reasoning-only line was appended after a content fragment.
C8_Witness ==
    /\ HasChoice(line)
    /\ FirstDelta(line) = DictDelta(Absent, "B")
    /\ result = "1"
    /\ Len(streaming_texts) >= 2
    /\ Last(streaming_texts) = "B"
    /\ streaming_texts[1] = "A"

\* C9 (as stated): a payload with no choices but a usage record returns 0,
\* appends nothing and makes that record the stored usage snapshot.
C9_UsageStored ==
    [][(line'.kind = "payload" /\ line'.choices = <<>> /\ line'.usage # Absent) =>
          /\ result' = "0"
          /\ AppendedNothing
          /\ streaming_usage' = line'.usage]_vars

\* C9 (amended): a payload with no choices but a non-empty usage record returns
\* 0, appends nothing and makes that record the stored usage snapshot.
C9_NonEmptyUsageStored ==
    [][(/\ line'.kind = "payload"
        /\ line'.choices = <<>>
        /\ line'.usage \notin {Absent, EmptyUsage}) =>
          /\ result' = "0"
          /\ AppendedNothing
          /\ streaming_usage' = line'.usage]_vars

\* C9 witness: a usage-only line replaced an earlier snapshot.
C9_Witness ==
    /\ line.kind = "payload"
    /\ line.choices = <<>>
    /\ line.usage = "U2"
    /\ result = "0"
    /\ streaming_usage = "U2"
    /\ Len(streaming_texts) >= 1

\* C10: the termination sentinel returns None and leaves the texts, the
\* response id and the usage snapshot as they were.
C10_DoneLeavesState ==
    [][line' = DoneLine =>
          /\ result' = "None"
          /\ UNCHANGED <<streaming_texts, streaming_response_id, streaming_usage>>]_vars

\* C10 witness: the sentinel arrived on a stream that already had fragments,
\* an id and a usage snapshot.
C10_Witness ==
    /\ line = DoneLine
    /\ result = "None"
    /\ Len(streaming_texts) >= 1
    /\ streaming_response_id # None
    /\ streaming_usage # None

\* A line add_streaming_line is meant to ignore: blank, or a payload whose
\* first choice has a null delta.
Unexpected(l) ==
    \/ l.kind = "blank"
    \/ l.kind = "payload" /\ l.choices # <<>> /\ l.choices[1].kind = "null"

\* C11: add_streaming_line never raises, whatever the line; a blank line or a
\* structurally unexpected payload (a first choice whose delta is null) returns
\* 0 and leaves the texts, the response id and the usage snapshot unchanged.
C11_NeverRaises ==
    [][/\ result' \in {"1", "0", "None"}
       /\ Unexpected(line') =>
              /\ result' = "0"
              /\ UNCHANGED <<streaming_texts, streaming_response_id,
                             streaming_usage>>]_vars

\* The latest call returned to its caller.
Returned(r) == r \in {"1", "0", "None"}

\* C19 (as stated): the usage snapshot is None before any line; a valid
\* payload that carries a usage record, whatever the record holds and whether
\* or not the line carries a token, makes that record the snapshot; every
\* other line leaves the snapshot as it was.
C19_LatestUsageKept ==
    [][/\ result = "nocall" => streaming_usage = None
       /\ IF ValidPayload(line') /\ line'.usage # Absent
          THEN streaming_usage' = line'.usage
          ELSE streaming_usage' = streaming_usage]_vars

\* C19 (amended): the usage snapshot is None before any line; a valid payload
\* that carries a non-empty usage record and on which the call returns makes
\* that record the snapshot, whether or not the line carries a token; every
\* other line (no usage record, an empty one, no valid payload, or a call
\* that raises) leaves the snapshot as it was.
C19_LatestNonEmptyUsageKept ==
    [][/\ result = "nocall" => streaming_usage = None
       /\ IF /\ ValidPayload(line')
             /\ line'.usage \notin {Absent, EmptyUsage}
             /\ Returned(result')
          THEN streaming_usage' = line'.usage
          ELSE streaming_usage' = streaming_usage]_vars

\* C19 witness: after earlier lines, a line carrying both a token and the
\* usage record U2 arrived, and U2 is the snapshot.
C19_Witness ==
    /\ ValidPayload(line)
    /\ line.usage = "U2"
    /\ result = "1"
    /\ Len(streaming_texts) >= 2
    /\ streaming_usage = "U2"

\* C20: the response id is None before any line; the first valid payload
\* that carries an id sets it to that id; no other line changes it, in
\* particular not a later payload carrying another id.
C20_FirstIdWins ==
    [][/\ result = "nocall" => streaming_response_id = None
       /\ IF /\ ValidPayload(line')
             /\ line'.id # Absent
             /\ streaming_response_id = None
          THEN streaming_response_id' = line'.id
          ELSE streaming_response_id' = streaming_response_id]_vars

\* C20 witness: a valid payload carrying id2 arrived after id1 had been
\* stored, and id1 is still the stored id.
C20_Witness ==
    /\ ValidPayload(line)
    /\ line.id = "id2"
    /\ Returned(result)
    /\ streaming_response_id = "id1"

\* C29: the texts are empty before any line; a call that returns 1 appends
\* exactly one fragment at the end and keeps all earlier fragments; every
\* other call (one that returns 0 or None, or raises) leaves the texts as
\* they were. So the texts only grow at the end and their length is the
\* number of calls that returned 1.
C29_AppendOnlyOnePerToken ==
    [][/\ result = "nocall" => streaming_texts = <<>>
       /\ IF result' = "1" THEN AppendedOne ELSE AppendedNothing]_vars

\* C29 witness: after two token lines, a payload without a token returned 0
\* and the two fragments are still there.
C29_Witness ==
    /\ HasChoice(line)
    /\ result = "0"
    /\ Len(streaming_texts) = 2

\* C30: for a payload with several choices, the first choice alone decides:
\* if its delta has no non-null content or reasoning_content the call returns
\* 0 and appends nothing, whatever the later choices carry; otherwise it
\* returns 1 and appends exactly one fragment, the one of the first choice.
C30_FirstChoiceOnly ==
    [][(HasChoice(line') /\ Len(line'.choices) >= 2) =>
          LET c == FirstDelta(line').content
              r == FirstDelta(line').reasoning_content
          IN  IF NonNull(c) \/ NonNull(r)
              THEN /\ result' = "1"
                   /\ Appended(IF Truthy(c) THEN c ELSE IF Truthy(r) THEN r ELSE "")
              ELSE /\ result' = "0"
                   /\ AppendedNothing]_vars

\* C30 witness: the first choice's delta was empty and the second choice
\* carried content "A"; the call returned 0.
C30_Witness ==
    /\ line.kind = "payload"
    /\ line.choices = <<DictDelta(Absent, Absent), DictDelta("A", Absent)>>
    /\ result = "0"
    /\ Len(streaming_texts) >= 1

----------------------------------------------------------------------------
(* Specifications                                                          *)

\* One extractor fed the lines of one stream.
ExtractorSpecInit == progresses = <<>> /\ ExtractorInit /\ RouterSinkInit
ExtractorSpec == ExtractorSpecInit /\ [][ExtractorNext]_vars

\* The sink driven one event at a time (a router whose only observer it is).
SinkInit == progresses = <<"server">> /\ ExtractorInit /\ RouterSinkInit
SinkNext ==
    \/ Tick
    \/ \E e \in SinkEvents : DispatchAny(e)
    \/ GatherReturn
    \/ \E k \in DOMAIN tasks : ServerInitialize(k)
    \/ \E k \in DOMAIN tasks : ServerFinalize(k)
    \/ \E k \in DOMAIN tasks : ServerUpdateProgress(k)
    \/ \E k \in DOMAIN tasks : ServerResponse(k)
SinkSpec == SinkInit /\ [][SinkNext]_vars

\* The router over several observers, the sink among them.
RouterInit == progresses \in ObserverLists /\ ExtractorInit /\ RouterSinkInit
RouterNext ==
    \/ \E e \in RouterEvents : DispatchInOrder(e)
    \/ GatherReturn
    \/ \E k \in DOMAIN tasks : OtherStart(k)
    \/ \E k \in DOMAIN tasks : OtherResume(k)
    \/ \E k \in DOMAIN tasks : ServerInitialize(k)
    \/ \E k \in DOMAIN tasks : ServerFinalize(k)
    \/ \E k \in DOMAIN tasks : ServerUpdateProgress(k)
    \/ \E k \in DOMAIN tasks : ServerResponse(k)
RouterSpec == RouterInit /\ [][RouterNext]_vars

====
